---- MODULE Spec2Model ----
(***************************************************************************)
(* Model of pubsub_to_bigquery_fraud_detection.py: the Airflow DAG that    *)
(* pulls payment events from a Pub/Sub subscription, filters them by the   *)
(* watermark kept in a BigQuery table, scores them with detect_fraud and   *)
(* hands the scored batch to the insert task.                              *)
(*                                                                         *)
(* Four specifications share the variables:                                *)
(*   Spec        the DAG runs (both tasks, Airflow's retry, the queue)     *)
(*   SpecWM      update_watermark / get_last_watermark on their own        *)
(*   SpecRules   process_transaction / detect_fraud on one transaction     *)
(*   SpecOverlap the watermark steps of two DAG runs that overlap          *)
(*                                                                         *)
(* Money is counted in minor units (cents): the wire value "100.01" is     *)
(* 10001.  Steps and watermarks are naturals; EPOCH is                     *)
(* datetime(1970, 1, 1).timestamp() on a worker whose clock is UTC.        *)
(***************************************************************************)
EXTENDS Integers, Sequences, FiniteSets

\* ------------------------------------------------------------- bounds
MaxStep == 2        \* steps carried by messages: 0..MaxStep
MaxQueue == 2       \* unacknowledged messages held by the subscription
MaxCand == 3        \* SpecWM: candidates are 0..MaxCand
MaxAdvances == 4    \* SpecWM: number of update_watermark calls

\* --------------------------------------------------- program constants
EPOCH == 0
retries == 1
max_messages == 100
HighValueCents == 20000000
SmallTransferCents == 1000
ToleranceCents == 1

PULL_TASK_ID == "pull_and_process_messages"
XCOM_PULL_TASK_IDS == "pull_pubsub_messages"

None == [none |-> TRUE]

VARIABLES
  subscription,     \* Pub/Sub: the messages not yet acknowledged
  watermark_table,  \* BigQuery WATERMARK_TABLE: last_processed_timestamp of each row
  target_table,     \* BigQuery TABLE_ID: the rows inserted
  xcom,             \* Airflow XCom of the DAG run: task_id -> return value
  pc,               \* position of the DAG run
  try_number,       \* attempt of the task that is running
  dag_state,        \* "none" | "running" | "success" | "failed"
  errors,           \* history: the exceptions that ended task attempts of the run
  last_watermark,   \* pull_and_process_messages: locals
  messages,
  idx,
  processed_data,
  new_watermark,
  run_w0,           \* history: watermark table when the DAG run started
  run_pulled,       \* history: messages pulled by the run's attempts
  run_acked,        \* history: messages acknowledged by the run
  run_inserted,     \* history: rows the run inserted into target_table
  prev_attempt,     \* history: the pull task's previous attempt in this run
  transaction,      \* SpecRules: the transaction dict
  scored,           \* SpecRules: "no" | "yes" | "raised"
  applied,          \* SpecWM: candidates written so far
  wm_before,        \* SpecWM: the watermark read before the first call
  cycles            \* SpecOverlap: the pull task of each of two overlapping runs

vars == <<subscription, watermark_table, target_table, xcom, pc, try_number,
          dag_state, errors, last_watermark, messages, idx, processed_data,
          new_watermark, run_w0, run_pulled, run_acked, run_inserted,
          prev_attempt, transaction, scored, applied, wm_before, cycles>>

pipeline_vars == <<subscription, watermark_table, target_table, xcom, pc,
                   try_number, dag_state, errors, last_watermark, messages, idx,
                   processed_data, new_watermark, run_w0, run_pulled, run_acked,
                   run_inserted, prev_attempt>>

pipeline_vars_but_table_errors ==
  <<subscription, target_table, xcom, pc, try_number, dag_state,
    last_watermark, messages, idx, processed_data, new_watermark, run_w0,
    run_pulled, run_acked, run_inserted, prev_attempt>>

\* ------------------------------------------------------------ helpers
Max(a, b) == IF a >= b THEN a ELSE b

Abs(x) == IF x < 0 THEN -x ELSE x

RECURSIVE SeqMax(_)
SeqMax(s) == IF s = <<>> THEN 0 ELSE Max(Head(s), SeqMax(Tail(s)))

RECURSIVE SetMax(_)
SetMax(S) == IF S = {} THEN 0
             ELSE LET x == CHOOSE y \in S : TRUE IN Max(x, SetMax(S \ {x}))

Range(s) == {s[i] : i \in 1..Len(s)}

\* The sequences without repetition over a set: the orders a pull may deliver.
RECURSIVE Perms(_)
Perms(S) == IF S = {} THEN {<<>>}
            ELSE UNION {{<<x>> \o p : p \in Perms(S \ {x})} : x \in S}

\* ----------------------------------------------------------- wire data
\* A numeric field as it arrives in the JSON payload: a decimal string
\* counted in cents ("num"), a string float() rejects ("text"), or no such
\* key ("missing").
Num(c) == [kind |-> "num", cents |-> c]
NotANumber == [kind |-> "text", cents |-> 0]
Missing == [kind |-> "missing", cents |-> 0]

\* float(x) returns for a numeric string and raises ValueError otherwise; a
\* missing key raises KeyError before float is called.
CanFloat(w) == w.kind = "num"
Float(w) == w.cents

\* ---------------------------------------------------------- rule engine
\* binary64 evaluation of abs(old - new - amount) > 0.01.  A mismatch of
\* zero cents, or of two cents and more, is decided as in exact arithmetic:
\* the rounding error of the operands is below 1e-7 for amounts under 1e9.
\* At a mismatch of exactly one cent the rounding of the operands decides.
\* 100.01 is stored as 100.0100000000000051..., the subtraction of 100.0 is
\* exact, and 0.0100000000000051 > 0.01 (stored as 0.01000000000000000021):
\* the triples below are those of the modelled values (0, 1, 2, 10000 and
\* 10001 cents, any modelled amount) on which the comparison is True.
RoundsAbove == {<<10001, 10000, 0>>, <<10000, 10001, 0>>}

MismatchRule(old, new, amount) ==
  LET e == Abs(old - new - amount)
  IN  IF e = ToleranceCents THEN <<old, new, amount>> \in RoundsAbove
      ELSE e > ToleranceCents

detect_fraud(t) ==
  IF t.type = "TRANSFER" /\ t.amount > HighValueCents THEN TRUE
  ELSE IF t.newbalanceOrig = 0 /\ t.oldbalanceOrg > 0 THEN TRUE
  ELSE IF t.type = "TRANSFER" /\ t.amount < SmallTransferCents
       THEN \* pass: rule 3 is not implemented
            MismatchRule(t.oldbalanceOrg, t.newbalanceOrig, t.amount)
  ELSE MismatchRule(t.oldbalanceOrg, t.newbalanceOrig, t.amount)

NumericFields(t) ==
  <<t.amount, t.oldbalanceOrg, t.newbalanceOrig, t.oldbalanceDest, t.newbalanceDest>>

\* process_transaction raises when a float() conversion does.
ProcessRaises(t) == \E i \in 1..5 : ~CanFloat(NumericFields(t)[i])

process_transaction(t) ==
  LET c == [t EXCEPT !.amount = Float(t.amount),
                     !.oldbalanceOrg = Float(t.oldbalanceOrg),
                     !.newbalanceOrig = Float(t.newbalanceOrig),
                     !.oldbalanceDest = Float(t.oldbalanceDest),
                     !.newbalanceDest = Float(t.newbalanceDest)]
  IN  [step |-> c.step, has_step |-> c.has_step, json |-> c.json,
       type |-> c.type, amount |-> c.amount,
       oldbalanceOrg |-> c.oldbalanceOrg, newbalanceOrig |-> c.newbalanceOrig,
       oldbalanceDest |-> c.oldbalanceDest, newbalanceDest |-> c.newbalanceDest,
       detected_fraud |-> detect_fraud(c)]

\* ------------------------------------------------------------- payloads
\* The decoded payload of one Pub/Sub message (json = FALSE: json.loads
\* raises on it; has_step = FALSE: the object has no 'step' key).
Payload(json, has_step, step, type, amount, old, new) ==
  [json |-> json, has_step |-> has_step, step |-> step, type |-> type,
   amount |-> amount, oldbalanceOrg |-> old, newbalanceOrig |-> new,
   oldbalanceDest |-> Num(0), newbalanceDest |-> Num(0)]

Messages ==
  {Payload(TRUE, TRUE, s, "PAYMENT", a, Num(1000), Num(0)) :
     s \in 0..MaxStep, a \in {Num(1000), NotANumber}}
  \cup {Payload(TRUE, FALSE, 0, "PAYMENT", Num(1000), Num(1000), Num(0)),
        Payload(FALSE, FALSE, 0, "PAYMENT", Num(1000), Num(1000), Num(0))}

WellFormed(m) == m.json /\ ~ProcessRaises(m)

\* data.get('step', 0)
message_timestamp(data) == IF data.has_step THEN data.step ELSE 0

\* The transactions SpecRules scores.
Types == {"TRANSFER", "PAYMENT", "CASH_OUT"}
WireAmounts == {Num(0), Num(1), Num(999), Num(1000), Num(HighValueCents),
                Num(HighValueCents + 1), NotANumber, Missing}
WireBalances == {Num(0), Num(1), Num(2), Num(10000), Num(10001)}

Transactions ==
  {Payload(TRUE, TRUE, 1, ty, a, o, n) :
     ty \in Types, a \in WireAmounts, o \in WireBalances, n \in WireBalances}

\* ------------------------------------------------------ watermark store
\* client.insert_rows_json(table_ref, rows): a streaming insert appends the
\* row, or reports errors and leaves the table as it was.  A row of the
\* watermark table is its last_processed_timestamp (update_time is never read).
insert_rows_json_truncating(table, row, reports_errors) ==
  IF reports_errors THEN <<>> ELSE <<row>>

insert_rows_json(table, row, reports_errors) ==
  IF reports_errors THEN table ELSE Append(table, row)

\* SELECT MAX(last_processed_timestamp): NULL over an empty table; the
\* result is replaced by the epoch when it is NULL or falsy (0).
get_last_watermark_latest(table) ==
  IF table # <<>> /\ table[Len(table)] # 0 THEN table[Len(table)] ELSE EPOCH

get_last_watermark(table) ==
  IF table # <<>> /\ SeqMax(table) # 0 THEN SeqMax(table) ELSE EPOCH

\* ------------------------------------------------------------ the DAG run
\* context['task_instance'].xcom_pull(task_ids=...): the value the task of
\* that id returned in this DAG run, None when no such task pushed one.
\* An XCom value is a list (is_none = FALSE) or None.
XComList(v) == [is_none |-> FALSE, list |-> v]
XComNone == [is_none |-> TRUE, list |-> <<>>]

xcom_pull(x, task_ids) == IF task_ids \in DOMAIN x THEN x[task_ids] ELSE XComNone

xcom_push(x, task_id, value) ==
  [t \in DOMAIN x \cup {task_id} |->
     IF t = task_id THEN XComList(value) ELSE x[t]]

\* Python's `not processed_data`
Falsy(v) == v.is_none \/ v.list = <<>>

Init ==
  /\ subscription = {}
  /\ watermark_table = <<>>
  /\ target_table = <<>>
  /\ xcom = <<>>
  /\ pc = "idle"
  /\ try_number = 0
  /\ dag_state = "none"
  /\ errors = {}
  /\ last_watermark = EPOCH
  /\ messages = <<>>
  /\ idx = 1
  /\ processed_data = <<>>
  /\ new_watermark = EPOCH
  /\ run_w0 = <<>>
  /\ run_pulled = {}
  /\ run_acked = {}
  /\ run_inserted = <<>>
  /\ prev_attempt = None
  /\ transaction = None
  /\ scored = "no"
  /\ applied = {}
  /\ wm_before = EPOCH
  /\ cycles = <<>>

\* A publisher adds a message to the topic; the subscription holds it until
\* it is acknowledged.  A message published while a run is under way is
\* first seen by a later pull, as if it were published between two runs.
Publish ==
  /\ pc = "idle"
  /\ Cardinality(subscription) < MaxQueue
  /\ \E m \in Messages \ subscription : subscription' = subscription \cup {m}
  /\ UNCHANGED <<watermark_table, target_table, xcom, pc, try_number, dag_state,
                 errors, last_watermark, messages, idx, processed_data,
                 new_watermark, run_w0, run_pulled, run_acked, run_inserted,
                 prev_attempt, transaction, scored, applied, wm_before, cycles>>

\* The scheduler starts a DAG run (schedule_interval); runs do not overlap.
StartDagRun ==
  /\ pc = "idle"
  /\ pc' = "get_last_watermark"
  /\ try_number' = 1
  /\ dag_state' = "running"
  /\ run_w0' = watermark_table
  /\ UNCHANGED <<subscription, watermark_table, target_table, xcom, errors,
                 last_watermark, messages, idx, processed_data, new_watermark,
                 run_pulled, run_acked, run_inserted, prev_attempt,
                 transaction, scored, applied, wm_before, cycles>>

\* The DAG run is over: its task instances, their locals and its XCom are
\* of no use to the next run.
EndDagRun ==
  /\ pc = "done"
  /\ pc' = "idle"
  /\ try_number' = 0
  /\ dag_state' = "none"
  /\ errors' = {}
  /\ xcom' = <<>>
  /\ last_watermark' = EPOCH
  /\ messages' = <<>>
  /\ idx' = 1
  /\ processed_data' = <<>>
  /\ new_watermark' = EPOCH
  /\ run_w0' = <<>>
  /\ run_pulled' = {}
  /\ run_acked' = {}
  /\ run_inserted' = <<>>
  /\ prev_attempt' = None
  /\ UNCHANGED <<subscription, watermark_table, target_table,
                 transaction, scored, applied, wm_before, cycles>>

\* A task attempt raised: Airflow runs the task again (retries = 1), and
\* fails the DAG run when the attempts are used up.
FailTask(err, task_start) ==
  /\ errors' = errors \cup {err}
  /\ IF try_number <= retries
       THEN /\ pc' = task_start
            /\ try_number' = try_number + 1
            /\ dag_state' = dag_state
       ELSE /\ pc' = "done"
            /\ try_number' = try_number
            /\ dag_state' = "failed"

\* The pull task's attempt ends by an exception: what it had done is kept
\* for the history of the run.
FailPullTask(err) ==
  /\ FailTask(err, "get_last_watermark")
  /\ prev_attempt' = [pulled |-> pc = "loop", messages |-> messages,
                      w0 |-> last_watermark, acked |-> run_acked,
                      processed_data |-> processed_data]

\* last_watermark = get_last_watermark()
GetLastWatermark ==
  /\ pc = "get_last_watermark"
  /\ last_watermark' = get_last_watermark(watermark_table)
  /\ pc' = "pull"
  /\ UNCHANGED <<subscription, watermark_table, target_table, xcom, try_number,
                 dag_state, errors, messages, idx, processed_data, new_watermark,
                 run_w0, run_pulled, run_acked, run_inserted, prev_attempt,
                 transaction, scored, applied, wm_before, cycles>>

\* bq_hook.get_first raises and the exception is swallowed: the task goes on
\* from the epoch.
GetLastWatermarkFails_swallowed ==
  /\ pc = "get_last_watermark"
  /\ errors' = errors \cup {"StoreUnavailable"}
  /\ last_watermark' = EPOCH
  /\ pc' = "pull"
  /\ UNCHANGED <<subscription, watermark_table, target_table, xcom, try_number,
                 dag_state, messages, idx, processed_data, new_watermark,
                 run_w0, run_pulled, run_acked, run_inserted, prev_attempt,
                 transaction, scored, applied, wm_before, cycles>>

\* bq_hook.get_first raises (transport, authorisation).
GetLastWatermarkFails ==
  /\ pc = "get_last_watermark"
  /\ FailPullTask("StoreUnavailable")
  /\ UNCHANGED <<subscription, watermark_table, target_table, xcom,
                 last_watermark, messages, idx, processed_data, new_watermark,
                 run_w0, run_pulled, run_acked, run_inserted,
                 transaction, scored, applied, wm_before, cycles>>

\* messages = pubsub_hook.pull(..., max_messages=100, return_immediately=True):
\* any of the unacknowledged messages, in any order; then the loop's locals.
Pull ==
  /\ pc = "pull"
  /\ \E S \in SUBSET subscription :
       /\ Cardinality(S) <= max_messages
       /\ \E delivered \in Perms(S) : messages' = delivered
       /\ run_pulled' = run_pulled \cup S
  /\ processed_data' = <<>>
  /\ new_watermark' = last_watermark
  /\ idx' = 1
  /\ pc' = "loop"
  /\ UNCHANGED <<subscription, watermark_table, target_table, xcom, try_number,
                 dag_state, errors, last_watermark, run_w0, run_acked,
                 run_inserted, prev_attempt, transaction, scored, applied,
                 wm_before, cycles>>

PullFails ==
  /\ pc = "pull"
  /\ FailPullTask("PullFailed")
  /\ UNCHANGED <<subscription, watermark_table, target_table, xcom,
                 last_watermark, messages, idx, processed_data, new_watermark,
                 run_w0, run_pulled, run_acked, run_inserted,
                 transaction, scored, applied, wm_before, cycles>>

\* The message the loop is at, and whether the filter lets it in.
InLoop == pc = "loop" /\ idx <= Len(messages)
\* The filter with a non-strict comparison: a message at the watermark passes.
Included_inclusive(data) == message_timestamp(data) >= last_watermark


Included(data) == message_timestamp(data) > last_watermark

\* What the loop body raises on the message before it reaches acknowledge.
BodyRaises(m) == ~m.json \/ (Included(m) /\ ProcessRaises(m))

\* One iteration of the loop that reaches its end: decode, filter, score,
\* append, and acknowledge this message.
ProcessMessage ==
  /\ InLoop
  /\ LET m == messages[idx] IN
       /\ ~BodyRaises(m)
       /\ processed_data' = IF Included(m)
                              THEN Append(processed_data, process_transaction(m))
                              ELSE processed_data
       /\ new_watermark' = IF Included(m)
                             THEN Max(new_watermark, message_timestamp(m))
                             ELSE new_watermark
       /\ subscription' = subscription \ {m}
       /\ run_acked' = run_acked \cup {m}
  /\ idx' = idx + 1
  /\ UNCHANGED <<watermark_table, target_table, xcom, pc, try_number, dag_state,
                 errors, last_watermark, messages, run_w0, run_pulled,
                 run_inserted, prev_attempt, transaction, scored, applied,
                 wm_before, cycles>>

\* json.loads or process_transaction raises: nothing catches it, the task
\* attempt ends with this message unacknowledged.
ProcessMessageRaises ==
  /\ InLoop
  /\ BodyRaises(messages[idx])
  /\ FailPullTask(IF messages[idx].json THEN "ValueError" ELSE "JSONDecodeError")
  /\ UNCHANGED <<subscription, watermark_table, target_table, xcom,
                 last_watermark, messages, idx, processed_data, new_watermark,
                 run_w0, run_pulled, run_acked, run_inserted,
                 transaction, scored, applied, wm_before, cycles>>

\* pubsub_hook.acknowledge raises (or the worker dies in the iteration):
\* the message stays in the subscription.
AcknowledgeFails ==
  /\ InLoop
  /\ ~BodyRaises(messages[idx])
  /\ FailPullTask("AcknowledgeFailed")
  /\ UNCHANGED <<subscription, watermark_table, target_table, xcom,
                 last_watermark, messages, idx, processed_data, new_watermark,
                 run_w0, run_pulled, run_acked, run_inserted,
                 transaction, scored, applied, wm_before, cycles>>

\* The end of the pull task with the write of the watermark record left
\* unguarded: the candidate is written whether or not it is above the
\* watermark read at the start.
FinishPullTask_unconditional ==
  /\ pc = "loop"
  /\ idx > Len(messages)
  /\ watermark_table' = insert_rows_json(watermark_table, new_watermark, FALSE)
  /\ xcom' = xcom_push(xcom, PULL_TASK_ID, processed_data)
  /\ pc' = "insert_to_bigquery"
  /\ try_number' = 1
  /\ UNCHANGED <<subscription, target_table, dag_state, errors, last_watermark,
                 messages, idx, processed_data, new_watermark, run_w0,
                 run_pulled, run_acked, run_inserted, prev_attempt,
                 transaction, scored, applied, wm_before, cycles>>

\* After the loop: update_watermark when the candidate is greater, then
\* return processed_data, which Airflow pushes to XCom under the task's id.
FinishPullTask ==
  /\ pc = "loop"
  /\ idx > Len(messages)
  /\ watermark_table' = IF new_watermark > last_watermark
                          THEN insert_rows_json(watermark_table, new_watermark, FALSE)
                          ELSE watermark_table
  /\ xcom' = xcom_push(xcom, PULL_TASK_ID, processed_data)
  /\ pc' = "insert_to_bigquery"
  /\ try_number' = 1
  /\ UNCHANGED <<subscription, target_table, dag_state, errors, last_watermark,
                 messages, idx, processed_data, new_watermark, run_w0,
                 run_pulled, run_acked, run_inserted, prev_attempt,
                 transaction, scored, applied, wm_before, cycles>>

\* update_watermark: insert_rows_json reports errors, the function raises.
UpdateWatermarkFails ==
  /\ pc = "loop"
  /\ idx > Len(messages)
  /\ new_watermark > last_watermark
  /\ watermark_table' = insert_rows_json(watermark_table, new_watermark, TRUE)
  /\ FailPullTask("WatermarkWriteFailed")
  /\ UNCHANGED <<subscription, target_table, xcom, last_watermark, messages,
                 idx, processed_data, new_watermark, run_w0, run_pulled,
                 run_acked, run_inserted, transaction, scored, applied,
                 wm_before, cycles>>

\* insert_to_bigquery: the batch is looked up under XCOM_PULL_TASK_IDS; when
\* it is falsy the task returns, else the rows go to the target table: all
\* of them (n = Len), or insert_rows reports errors after n of them and the
\* task raises.
InsertToBigquery ==
  /\ pc = "insert_to_bigquery"
  /\ LET data == xcom_pull(xcom, XCOM_PULL_TASK_IDS) IN
       IF Falsy(data)
         THEN /\ pc' = "done"
              /\ dag_state' = "success"
              /\ UNCHANGED <<target_table, run_inserted, try_number, errors>>
         ELSE \E n \in 0..Len(data.list) :
                /\ target_table' = target_table \o SubSeq(data.list, 1, n)
                /\ run_inserted' = run_inserted \o SubSeq(data.list, 1, n)
                /\ IF n = Len(data.list)
                     THEN /\ pc' = "done"
                          /\ dag_state' = "success"
                          /\ UNCHANGED <<try_number, errors>>
                     ELSE FailTask("InsertErrors", "insert_to_bigquery")
  /\ UNCHANGED <<subscription, watermark_table, xcom, last_watermark, messages,
                 idx, processed_data, new_watermark, run_w0, run_pulled,
                 run_acked, prev_attempt, transaction, scored, applied,
                 wm_before, cycles>>

\* bq_hook.get_client() raises before anything is read or written.
InsertToBigqueryFails ==
  /\ pc = "insert_to_bigquery"
  /\ FailTask("ClientUnavailable", "insert_to_bigquery")
  /\ UNCHANGED <<subscription, watermark_table, target_table, xcom,
                 last_watermark, messages, idx, processed_data, new_watermark,
                 run_w0, run_pulled, run_acked, run_inserted, prev_attempt,
                 transaction, scored, applied, wm_before, cycles>>

Next ==
  \/ Publish
  \/ StartDagRun
  \/ EndDagRun
  \/ GetLastWatermark
  \/ GetLastWatermarkFails
  \/ Pull
  \/ PullFails
  \/ ProcessMessage
  \/ ProcessMessageRaises
  \/ AcknowledgeFails
  \/ FinishPullTask
  \/ UpdateWatermarkFails
  \/ InsertToBigquery
  \/ InsertToBigqueryFails

Spec == Init /\ [][Next]_vars

\* ------------------------------------------- SpecWM: the watermark store
\* update_watermark is called with candidates in any order, any number of
\* times each; get_last_watermark is read in between.
InitWM ==
  /\ subscription = {}
  /\ watermark_table \in {<<>>} \cup {<<w>> : w \in 1..MaxCand}
  /\ wm_before = get_last_watermark(watermark_table)
  /\ applied = {}
  /\ target_table = <<>>
  /\ xcom = <<>>
  /\ pc = "idle"
  /\ try_number = 0
  /\ dag_state = "none"
  /\ errors = {}
  /\ last_watermark = EPOCH
  /\ messages = <<>>
  /\ idx = 1
  /\ processed_data = <<>>
  /\ new_watermark = EPOCH
  /\ run_w0 = <<>>
  /\ run_pulled = {}
  /\ run_acked = {}
  /\ run_inserted = <<>>
  /\ prev_attempt = None
  /\ transaction = None
  /\ scored = "no"
  /\ cycles = <<>>

\* update_watermark(timestamp), insert_rows_json reporting no error
UpdateWatermark ==
  /\ Len(watermark_table) <= MaxAdvances
  /\ \E timestamp \in 0..MaxCand :
       /\ watermark_table' = insert_rows_json(watermark_table, timestamp, FALSE)
       /\ applied' = applied \cup {timestamp}
  /\ errors' = errors
  /\ UNCHANGED <<pipeline_vars_but_table_errors, transaction, scored, wm_before, cycles>>

\* update_watermark(timestamp) raising: the candidate is not recorded
UpdateWatermarkRaises ==
  /\ Len(watermark_table) <= MaxAdvances
  /\ \E timestamp \in 0..MaxCand :
       watermark_table' = insert_rows_json(watermark_table, timestamp, TRUE)
  /\ errors' = errors \cup {"WatermarkWriteFailed"}
  /\ UNCHANGED <<pipeline_vars_but_table_errors, transaction, scored, wm_before,
                 applied, cycles>>

NextWM == UpdateWatermark \/ UpdateWatermarkRaises

SpecWM == InitWM /\ [][NextWM]_vars

\* ------------------------------------------ SpecRules: the rule engine
\* process_transaction is applied to one transaction as it arrives.
InitRules ==
  /\ transaction \in Transactions
  /\ scored = "no"
  /\ subscription = {}
  /\ watermark_table = <<>>
  /\ wm_before = EPOCH
  /\ applied = {}
  /\ target_table = <<>>
  /\ xcom = <<>>
  /\ pc = "idle"
  /\ try_number = 0
  /\ dag_state = "none"
  /\ errors = {}
  /\ last_watermark = EPOCH
  /\ messages = <<>>
  /\ idx = 1
  /\ processed_data = <<>>
  /\ new_watermark = EPOCH
  /\ run_w0 = <<>>
  /\ run_pulled = {}
  /\ run_acked = {}
  /\ run_inserted = <<>>
  /\ prev_attempt = None
  /\ cycles = <<>>

ProcessTransaction ==
  /\ scored = "no"
  /\ ~ProcessRaises(transaction)
  /\ transaction' = process_transaction(transaction)
  /\ scored' = "yes"
  /\ UNCHANGED <<pipeline_vars, applied, wm_before, cycles>>

\* float(transaction['amount']) raises before any field is replaced
ProcessTransactionRaises ==
  /\ scored = "no"
  /\ ProcessRaises(transaction)
  /\ scored' = "raised"
  /\ UNCHANGED <<transaction, pipeline_vars, applied, wm_before, cycles>>

NextRules == ProcessTransaction \/ ProcessTransactionRaises

SpecRules == InitRules /\ [][NextRules]_vars

(***************************************************************************)
(* SpecOverlap: two runs of the DAG whose pull tasks overlap.  The DAG     *)
(* sets neither max_active_runs nor depends_on_past, and a retry waits     *)
(* retry_delay = 5 minutes while the next run is scheduled after 5         *)
(* minutes, so a run may read the watermark before an earlier run has      *)
(* written its own.  Each cycle keeps its own last_watermark and           *)
(* new_watermark; the watermark table is the only thing they share.        *)
(***************************************************************************)
Cycles == {1, 2}

Cycle(at, try, last, new) ==
  [pc |-> at, try_number |-> try, last_watermark |-> last, new_watermark |-> new]

InitOverlap ==
  /\ subscription = {}
  /\ watermark_table \in {<<>>} \cup {<<w>> : w \in 1..MaxStep}
  /\ wm_before = get_last_watermark(watermark_table)
  /\ applied = {}
  /\ cycles = [c \in Cycles |-> Cycle("get_last_watermark", 1, EPOCH, EPOCH)]
  /\ target_table = <<>>
  /\ xcom = <<>>
  /\ pc = "idle"
  /\ try_number = 0
  /\ dag_state = "none"
  /\ errors = {}
  /\ last_watermark = EPOCH
  /\ messages = <<>>
  /\ idx = 1
  /\ processed_data = <<>>
  /\ new_watermark = EPOCH
  /\ run_w0 = <<>>
  /\ run_pulled = {}
  /\ run_acked = {}
  /\ run_inserted = <<>>
  /\ prev_attempt = None
  /\ transaction = None
  /\ scored = "no"

\* l.89 and l.97: the cycle reads the stored watermark and starts from it
CycleGetLastWatermark(c) ==
  /\ cycles[c].pc = "get_last_watermark"
  /\ LET w == get_last_watermark(watermark_table)
     IN  cycles' = [cycles EXCEPT ![c] = Cycle("loop", @.try_number, w, w)]
  /\ UNCHANGED <<pipeline_vars, transaction, scored, applied, wm_before>>

\* l.98-105: one message of the cycle's batch, of any step
CycleMessage(c) ==
  /\ cycles[c].pc = "loop"
  /\ \E step \in 0..MaxStep :
       cycles' = [cycles EXCEPT ![c].new_watermark =
                    IF step > cycles[c].last_watermark THEN Max(@, step) ELSE @]
  /\ UNCHANGED <<pipeline_vars, transaction, scored, applied, wm_before>>

\* A last-writer-wins store, for contrast: the cycle's row replaces the
\* table's content instead of being appended to it.
CycleUpdateWatermark_overwrite(c) ==
  /\ cycles[c].pc = "loop"
  /\ IF cycles[c].new_watermark > cycles[c].last_watermark
       THEN /\ watermark_table' = <<cycles[c].new_watermark>>
            /\ applied' = applied \cup {cycles[c].new_watermark}
       ELSE UNCHANGED <<watermark_table, applied>>
  /\ cycles' = [cycles EXCEPT ![c].pc = "done"]
  /\ errors' = errors
  /\ UNCHANGED <<pipeline_vars_but_table_errors, transaction, scored, wm_before>>

\* l.109-112: the batch is over; the candidate is written when it is above
\* the watermark this cycle read
CycleUpdateWatermark(c) ==
  /\ cycles[c].pc = "loop"
  /\ IF cycles[c].new_watermark > cycles[c].last_watermark
       THEN /\ watermark_table' =
                 insert_rows_json(watermark_table, cycles[c].new_watermark, FALSE)
            /\ applied' = applied \cup {cycles[c].new_watermark}
       ELSE UNCHANGED <<watermark_table, applied>>
  /\ cycles' = [cycles EXCEPT ![c].pc = "done"]
  /\ errors' = errors
  /\ UNCHANGED <<pipeline_vars_but_table_errors, transaction, scored, wm_before>>

\* l.43-45 raising in a cycle: the attempt ends, Airflow retries it once
CycleUpdateWatermarkFails(c) ==
  /\ cycles[c].pc = "loop"
  /\ cycles[c].new_watermark > cycles[c].last_watermark
  /\ watermark_table' =
       insert_rows_json(watermark_table, cycles[c].new_watermark, TRUE)
  /\ errors' = errors \cup {"WatermarkWriteFailed"}
  /\ cycles' = [cycles EXCEPT ![c] =
                  IF @.try_number <= retries
                    THEN Cycle("get_last_watermark", @.try_number + 1, EPOCH, EPOCH)
                    ELSE [@ EXCEPT !.pc = "failed"]]
  /\ UNCHANGED <<pipeline_vars_but_table_errors, transaction, scored, applied,
                 wm_before>>

NextOverlap ==
  \/ \E c \in Cycles : CycleGetLastWatermark(c)
  \/ \E c \in Cycles : CycleMessage(c)
  \/ \E c \in Cycles : CycleUpdateWatermark(c)
  \/ \E c \in Cycles : CycleUpdateWatermarkFails(c)

SpecOverlap == InitOverlap /\ [][NextOverlap]_vars

\* ------------------------------------------------------------- claims
StoredWatermark == get_last_watermark(watermark_table)

\* The messages of the attempt's pull that pass the filter, their rows and
\* the greatest of their steps.
IncludedOf(msgs, w0) == {m \in Range(msgs) : message_timestamp(m) > w0}
RowsOf(S) == {process_transaction(m) : m \in S}
MaxStepOf(S) == SetMax({message_timestamp(m) : m \in S})

\* A DAG run that ended in success with a single attempt of the pull task.
CleanSuccess == dag_state = "success" /\ prev_attempt = None

\* C1: every acknowledgement of a run comes after the run's warehouse commit
\* reported success: while a message of the run is acknowledged, the insert
\* task has returned.
C1_AckOnlyAfterCommit == run_acked # {} => dag_state = "success"

\* C2: the stored watermark is never greater than the greatest step among
\* the rows committed to the target table.
C2_WatermarkWithinCommitted ==
  StoredWatermark <= MaxStepOf(Range(target_table))

\* The exceptions a single message raises in the loop body.
PerMessageErrors == {"JSONDecodeError", "ValueError"}

\* C3: a run that is aborted before its commit succeeded (by a failure of
\* the warehouse, the queue or the worker, not of a message) has acknowledged
\* none of the messages it pulled and has left the watermark table as it
\* was, and the messages it pulled are still in the subscription for the
\* next run.
C3_AbortLeavesNoTrace ==
  (dag_state = "failed" /\ errors \cap PerMessageErrors = {}) =>
    /\ run_acked = {}
    /\ watermark_table = run_w0
    /\ run_pulled \subseteq subscription

\* C4: a run over well-formed messages commits exactly the rows of the
\* messages with step > w0, acknowledges the others unscored, and leaves
\* the watermark at max(w0, greatest step above w0).
C4_CycleCommitsNewSteps ==
  (CleanSuccess /\ \A m \in Range(messages) : WellFormed(m)) =>
    LET inc == IncludedOf(messages, last_watermark) IN
      /\ Range(run_inserted) = RowsOf(inc)
      /\ Range(processed_data) = RowsOf(inc)
      /\ Range(messages) \ inc \subseteq run_acked
      /\ StoredWatermark = Max(last_watermark, MaxStepOf(inc))

\* C5: a message that cannot be decoded or scored never ends the task
\* attempt; it is acknowledged and left out, and the valid messages above
\* the watermark are committed and set the watermark.
C5_PerMessageFailureDoesNotAbort ==
  /\ errors \cap PerMessageErrors = {}
  /\ CleanSuccess =>
       LET valid == {m \in IncludedOf(messages, last_watermark) : WellFormed(m)}
           bad == {m \in Range(messages) : BodyRaises(m)}
       IN  /\ bad \subseteq run_acked
           /\ Range(run_inserted) = RowsOf(valid)
           /\ StoredWatermark = Max(last_watermark, MaxStepOf(valid))

\* C6: a run that ends in success has written to the target table exactly
\* the batch its pull task returned.
C6_NoBatchSilentlyDropped ==
  dag_state = "success" => Range(run_inserted) = Range(xcom_pull(xcom, PULL_TASK_ID).list)

\* C7: when an attempt crashed before any acknowledgement and the next one
\* is delivered the same messages, the second scores what the first had
\* scored, every message above the watermark has its row in the target
\* table, and the watermark is the greatest step of the messages, no more.
RerunOfCrashedAttempt ==
  /\ dag_state = "success"
  /\ prev_attempt # None
  /\ prev_attempt.pulled
  /\ prev_attempt.acked = {}
  /\ prev_attempt.messages = messages
  /\ messages # <<>>

C7_RerunAfterCrashIsIdempotent ==
  RerunOfCrashedAttempt =>
    LET inc == IncludedOf(messages, last_watermark) IN
      /\ prev_attempt.w0 = last_watermark
      /\ \A i \in 1..Len(prev_attempt.processed_data) :
           prev_attempt.processed_data[i] = processed_data[i]
      /\ RowsOf(inc) \subseteq Range(target_table)
      /\ StoredWatermark = Max(last_watermark, MaxStepOf(inc))
      /\ StoredWatermark <= Max(last_watermark, MaxStepOf(Range(messages)))

\* C8: the watermark a read returns never decreases: no step of the system
\* lowers the stored watermark, and get_last_watermark returns the stored one.
C8_WatermarkNeverDecreases ==
  [][/\ get_last_watermark(watermark_table') >= get_last_watermark(watermark_table)
     /\ (pc = "get_last_watermark" /\ pc' = "pull") =>
           last_watermark' = get_last_watermark(watermark_table)]_vars

\* A second attempt reads a watermark that runs, failures and a retry built.
C8_Witness ==
  /\ pc = "pull"
  /\ try_number = 2
  /\ last_watermark = MaxStep
  /\ Len(watermark_table) >= 2

\* C9: after any calls of update_watermark, in any order and with
\* repetitions, the watermark read is the greatest of the candidates written
\* and of the watermark before them.
C9_AdvanceIsMax == StoredWatermark = Max(wm_before, SetMax(applied))

\* Candidates written out of order and more than once.
C9_Witness ==
  /\ Cardinality(applied) >= 3
  /\ Len(watermark_table) > Cardinality(applied) + 1
  /\ watermark_table[Len(watermark_table)] < SetMax(applied)
  /\ StoredWatermark = MaxCand

\* C10: the verdict is the disjunction of the high-value rule, the drained
\* account rule and the mismatch rule taken in exact cents (more than one
\* cent); a small transfer alone and a mismatch of exactly one cent do not flag.
C10_VerdictIsOrOfRules ==
  scored = "yes" =>
    transaction.detected_fraud =
      (\/ transaction.type = "TRANSFER" /\ transaction.amount > HighValueCents
       \/ transaction.newbalanceOrig = 0 /\ transaction.oldbalanceOrg > 0
       \/ Abs(transaction.oldbalanceOrg - transaction.newbalanceOrig
              - transaction.amount) > ToleranceCents)

\* C11: a failure of the watermark read or of the pull ends the task attempt
\* with an error and changes nothing (subscription, watermark table, target
\* table, XCom); a run that failed by such failures alone has acknowledged
\* nothing, written no watermark record and no row.
ReadPullErrors == {"StoreUnavailable", "PullFailed"}

AttemptEndsInReadOrPull ==
  /\ pc \in {"get_last_watermark", "pull"}
  /\ errors' # errors \/ try_number' # try_number \/ pc' = "done"

C11_ReadOrPullFailureHasNoEffect ==
  /\ [](( dag_state = "failed" /\ errors \subseteq ReadPullErrors) =>
          /\ run_acked = {}
          /\ watermark_table = run_w0
          /\ run_inserted = <<>>
          /\ xcom = <<>>)
  /\ [][AttemptEndsInReadOrPull =>
          /\ errors' \ errors \subseteq ReadPullErrors
          /\ errors' \cap ReadPullErrors # {}
          /\ pc' \in {"get_last_watermark", "done"}
          /\ pc' = "done" => dag_state' = "failed"
          /\ UNCHANGED <<subscription, watermark_table, target_table, xcom,
                         run_acked, run_inserted>>]_vars

\* Both attempts of the pull task failed, one on the read and one on the
\* pull, with messages waiting in the subscription.
C11_Witness ==
  /\ dag_state = "failed"
  /\ errors = ReadPullErrors
  /\ subscription # {}

\* C12: when cycles overlap and each advances the watermark, the stored
\* watermark ends at the largest value any of them applied (or where it was,
\* if that is larger), and it never moves backwards on the way, whatever the
\* order in which the cycles read and write.
CyclesOver == \A c \in Cycles : cycles[c].pc \in {"done", "failed"}

C12_ConcurrentAdvancesResolveToMax ==
  /\ [](CyclesOver => StoredWatermark = Max(wm_before, SetMax(applied)))
  /\ [][StoredWatermark' >= StoredWatermark]_vars

\* both cycles read before either wrote, and the smaller candidate was
\* written last
C12_Witness ==
  /\ \A c \in Cycles : cycles[c].pc = "done"
  /\ cycles[1].last_watermark = cycles[2].last_watermark
  /\ Len(watermark_table) >= 2
  /\ watermark_table[Len(watermark_table)] < watermark_table[Len(watermark_table) - 1]
  /\ \A c \in Cycles : cycles[c].new_watermark \in applied

\* C13: a pulled message ends in one of two ways, committed and then
\* acknowledged, or discarded by the filter: after a run without any failure,
\* every well-formed message the run acknowledged either had a step at most
\* the watermark read at the start of the run or has its row in the target
\* table.
C13_AckedIsCommittedOrDiscarded ==
  (dag_state = "success" /\ errors = {}) =>
    \A m \in run_acked :
      WellFormed(m) =>
        \/ message_timestamp(m) <= last_watermark
        \/ process_transaction(m) \in Range(target_table)

\* C14: a run writes a watermark record only when its candidate is strictly
\* above the watermark it read at its start.  Until its pull task has
\* returned the watermark table is as the run found it; once it has, a run
\* whose pull was empty or held only messages with step <= w0 has left the
\* table unchanged and has written no row, and any other run has appended
\* the single record max(w0, greatest step of the included messages).
PullTaskReturned == PULL_TASK_ID \in DOMAIN xcom

C14_RecordOnlyWhenCandidateAbove ==
  pc # "idle" =>
    IF ~PullTaskReturned
      THEN watermark_table = run_w0
      ELSE LET w0 == get_last_watermark(run_w0)
               inc == IncludedOf(messages, w0)
           IN  /\ last_watermark = w0
               /\ IF inc = {}
                    THEN watermark_table = run_w0 /\ run_inserted = <<>>
                    ELSE /\ watermark_table =
                              Append(run_w0, Max(w0, MaxStepOf(inc)))
                         /\ watermark_table[Len(watermark_table)] > w0

\* a run after one that wrote a record, whose pull held only messages with
\* step <= w0
C14_Witness ==
  /\ PullTaskReturned
  /\ run_w0 # <<>>
  /\ messages # <<>>
  /\ IncludedOf(messages, last_watermark) = {}
  /\ watermark_table = run_w0

\* C15: within a run the watermark is written at most once, and only after
\* the run's warehouse commit has succeeded: while the watermark table
\* differs from what the run found, it holds one record more and the insert
\* task has returned successfully.
C15_WatermarkWrittenAfterCommit ==
  (pc # "idle" /\ watermark_table # run_w0) =>
    /\ Len(watermark_table) = Len(run_w0) + 1
    /\ dag_state = "success"

\* The case of C16, a warehouse insert that reports row errors, needs
\* insert_rows to be called with a batch.  No run calls it: the insert task
\* always reads None from XCom, so no row is written and the task never
\* raises for row errors.  The outcome of a partial insert is therefore not
\* observable in any run of the program.
InsertNeverAttempted ==
  /\ Falsy(xcom_pull(xcom, XCOM_PULL_TASK_IDS))
  /\ run_inserted = <<>>
  /\ target_table = <<>>
  /\ "InsertErrors" \notin errors

\* C17: every message the watermark filter discards (step <= watermark,
\* acknowledged without being scored) is a duplicate: its row was committed
\* to the target table by an earlier run.
C17_DiscardedIsDuplicate ==
  \A m \in run_acked :
    (WellFormed(m) /\ message_timestamp(m) <= last_watermark) =>
      process_transaction(m) \in Range(target_table)

\* C18: a message without a step field is handled as step 0, and starting
\* from the empty watermark store every message with step 0 or without a
\* step is acknowledged without being scored or committed, in the first run
\* and in every later one: no scored, handed-over or inserted row has step
\* 0, the loop acknowledges each such message it has passed, and no such
\* message makes the scoring raise.
ZeroStep(m) == m.json /\ (~m.has_step \/ m.step = 0)

ScoredRows ==
  Range(processed_data) \cup Range(run_inserted) \cup Range(target_table)
    \cup UNION {Range(xcom[t].list) : t \in DOMAIN xcom}

C18_ZeroStepNeverScored ==
  /\ [](/\ \A m \in Messages : ZeroStep(m) => message_timestamp(m) = 0
        /\ \A r \in ScoredRows : ~ZeroStep(r)
        /\ \A i \in 1..(idx - 1) :
             (i <= Len(messages) /\ ZeroStep(messages[i])) =>
               messages[i] \in run_acked /\ messages[i] \notin subscription)
  /\ [][(InLoop /\ ZeroStep(messages[idx])) =>
          /\ errors' \ errors \subseteq {"AcknowledgeFailed"}
          /\ processed_data' = processed_data
          /\ new_watermark' = new_watermark]_vars

\* a later run, the watermark store no longer empty, has acknowledged a
\* message without a step and a message with step 0, one of them with an
\* amount that cannot be scored
C18_Witness ==
  /\ run_w0 # <<>>
  /\ pc = "done"
  /\ dag_state = "success"
  /\ \E m1, m2 \in run_acked :
       /\ m1.json /\ ~m1.has_step
       /\ m2.json /\ m2.has_step /\ m2.step = 0 /\ ProcessRaises(m2)

====
